---------------------------- MODULE Spec2Model ----------------------------
(***************************************************************************)
(* Model of the versa_transfer_hook program                                *)
(* (src/programs/versa_transfer_hook/src/lib.rs).                          *)
(*                                                                         *)
(* One mint is modelled, hence one HookConfig account (PDA "hook-config")  *)
(* and one UserState account (PDA "user-state") per owner key.  Every      *)
(* instruction is one atomic step: the runtime validates the accounts      *)
(* (the #[derive(Accounts)] constraints), runs the handler, and commits    *)
(* the account data only when the handler returns Ok; on any error the     *)
(* whole transaction, account creation included, is rolled back.           *)
(*                                                                         *)
(* u64 and u128 values are little-endian sequences of 16-bit limbs (4 and  *)
(* 8 limbs), because the values of the program exceed the integers of the  *)
(* model checker; the width of each type is therefore exact.               *)
(***************************************************************************)
EXTENDS Integers, Sequences, FiniteSets, TLC

VARIABLES hook_config, user_state, clock, last, hist

vars == <<hook_config, user_state, clock, last, hist>>

---------------------------------------------------------------------------
(* Bounds of the model *)

\* accepted transfers per behaviour
MaxTransfers == 2
\* largest value of the cluster clock
MaxClock == 1

---------------------------------------------------------------------------
(* Fixed-width unsigned integers *)

Limb == 2^16

U64Limbs == 4

U128Limbs == 8

\* a small literal as a u64
U64(n) == <<n % Limb, (n \div Limb) % Limb, 0, 0>>

ZERO == U64(0)

ONE == U64(1)

U64_MAX == <<Limb - 1, Limb - 1, Limb - 1, Limb - 1>>

\* `x as u128` of a u64
as_u128(x) == x \o <<0, 0, 0, 0>>

\* `x as u64` of a u128: keeps the low 64 bits
as_u64(x) == SubSeq(x, 1, U64Limbs)

\* a < b, for two values of the same width, from the most significant limb
RECURSIVE LtFrom(_, _, _)
LtFrom(a, b, i) ==
    IF i = 0 THEN FALSE
    ELSE IF a[i] # b[i] THEN a[i] < b[i]
    ELSE LtFrom(a, b, i - 1)

Lt(a, b) == LtFrom(a, b, Len(a))

Le(a, b) == ~Lt(b, a)

\* a + b + c limb by limb; the result has one more limb, the carry out
RECURSIVE AddCarry(_, _, _, _)
AddCarry(a, b, i, c) ==
    IF i > Len(a) THEN <<c>>
    ELSE LET s == a[i] + b[i] + c
         IN  <<s % Limb>> \o AddCarry(a, b, i + 1, s \div Limb)

\* a - b - c limb by limb, for a >= b
RECURSIVE SubBorrow(_, _, _, _)
SubBorrow(a, b, i, c) ==
    IF i > Len(a) THEN <<>>
    ELSE LET d == a[i] - b[i] - c
         IN  <<d % Limb>> \o SubBorrow(a, b, i + 1, IF d < 0 THEN 1 ELSE 0)

\* a * k + c limb by limb, k a small factor; one more limb, the carry out
RECURSIVE MulCarry(_, _, _, _)
MulCarry(a, k, i, c) ==
    IF i > Len(a) THEN <<c>>
    ELSE LET p == a[i] * k + c
         IN  <<p % Limb>> \o MulCarry(a, k, i + 1, p \div Limb)

\* floor(a / d) by short division from the most significant limb
RECURSIVE DivRem(_, _, _, _)
DivRem(a, d, i, r) ==
    IF i = 0 THEN <<>>
    ELSE LET cur == r * Limb + a[i]
         IN  DivRem(a, d, i - 1, cur % d) \o <<cur \div d>>

None == <<>>

\* u64::saturating_add, the mutant wraps
wrapping_add(a, b) == SubSeq(AddCarry(a, b, 1, 0), 1, U64Limbs)

saturating_add(a, b) ==
    LET s == AddCarry(a, b, 1, 0)
    IN  IF s[U64Limbs + 1] # 0 THEN U64_MAX ELSE SubSeq(s, 1, U64Limbs)

\* u64::saturating_sub, the mutant wraps
wrapping_sub(a, b) ==
    SubSeq(SubBorrow(a \o <<1>>, b \o <<0>>, 1, 0), 1, U64Limbs)

saturating_sub(a, b) == IF Lt(a, b) THEN ZERO ELSE SubBorrow(a, b, 1, 0)

\* u128::checked_mul by a factor that came from a u16: None on overflow.
\* The mutant multiplies without widening: it overflows at 64 bits.
checked_mul_u64(a, k) ==
    LET p == MulCarry(a, k, 1, 0)
    IN  IF \E i \in (U64Limbs + 1)..(U128Limbs + 1) : p[i] # 0 THEN None
        ELSE SubSeq(p, 1, U128Limbs)

checked_mul(a, k) ==
    LET p == MulCarry(a, k, 1, 0)
    IN  IF p[U128Limbs + 1] # 0 THEN None ELSE SubSeq(p, 1, U128Limbs)

\* u128::checked_div: None when the divisor is 0
checked_div(a, d) == IF d = 0 THEN None ELSE DivRem(a, d, Len(a), 0)

\* a u64 literal too large to write as one number: x * k
ScaleU64(x, k) == as_u64(MulCarry(x, k, 1, 0))

---------------------------------------------------------------------------
(* Constants of the program *)

TIER_1_THRESHOLD == U64(100000000)

TIER_2_THRESHOLD == U64(1000000000)

\* 10_000_000_000
TIER_3_THRESHOLD == ScaleU64(U64(1000000000), 10)

TIER_1_FEE_BPS == 100

TIER_2_FEE_BPS == 50

TIER_3_FEE_BPS == 25

TIER_4_FEE_BPS == 10

LOYALTY_BRONZE == 10

LOYALTY_SILVER == 50

LOYALTY_GOLD == 100

---------------------------------------------------------------------------
(* Tier tables *)

\* the mutant puts an amount equal to a threshold in the tier below it
calculate_fee_tier_le(amount) ==
    IF Le(amount, TIER_1_THRESHOLD) THEN TIER_1_FEE_BPS
    ELSE IF Le(amount, TIER_2_THRESHOLD) THEN TIER_2_FEE_BPS
    ELSE IF Le(amount, TIER_3_THRESHOLD) THEN TIER_3_FEE_BPS
    ELSE TIER_4_FEE_BPS

calculate_fee_tier(amount) ==
    IF Lt(amount, TIER_1_THRESHOLD) THEN TIER_1_FEE_BPS
    ELSE IF Lt(amount, TIER_2_THRESHOLD) THEN TIER_2_FEE_BPS
    ELSE IF Lt(amount, TIER_3_THRESHOLD) THEN TIER_3_FEE_BPS
    ELSE TIER_4_FEE_BPS

\* the mutant needs one transfer more than the threshold
get_loyalty_tier_gt(transfer_count) ==
    IF Lt(U64(LOYALTY_GOLD), transfer_count) THEN "Gold"
    ELSE IF Lt(U64(LOYALTY_SILVER), transfer_count) THEN "Silver"
    ELSE IF Lt(U64(LOYALTY_BRONZE), transfer_count) THEN "Bronze"
    ELSE "None"

\* the mutant looks at the count after the transfer is counted
get_loyalty_tier_after(transfer_count) ==
    LET counted == saturating_add(transfer_count, ONE)
    IN  IF Le(U64(LOYALTY_GOLD), counted) THEN "Gold"
        ELSE IF Le(U64(LOYALTY_SILVER), counted) THEN "Silver"
        ELSE IF Le(U64(LOYALTY_BRONZE), counted) THEN "Bronze"
        ELSE "None"

get_loyalty_tier(transfer_count) ==
    IF Le(U64(LOYALTY_GOLD), transfer_count) THEN "Gold"
    ELSE IF Le(U64(LOYALTY_SILVER), transfer_count) THEN "Silver"
    ELSE IF Le(U64(LOYALTY_BRONZE), transfer_count) THEN "Bronze"
    ELSE "None"

\* the match of transfer_hook on the loyalty tier
discount_bps_of(loyalty_tier) ==
    CASE loyalty_tier = "Bronze" -> 10
      [] loyalty_tier = "Silver" -> 25
      [] loyalty_tier = "Gold" -> 50
      [] loyalty_tier = "None" -> 0

---------------------------------------------------------------------------
(* Accounts *)

\* the keys that sign and own
Keys == {"k1", "k2"}

\* Pubkey::default(), the owner field of zeroed account data
DefaultPubkey == "default"

\* the amounts transferred: one below TIER_1_THRESHOLD (100 bps), one between
\* TIER_2_THRESHOLD and TIER_3_THRESHOLD (25 bps), and u64::MAX (10 bps)
Amounts == {U64(50000000), U64(2000000000), U64_MAX}

\* an account that does not exist, and the data `init` starts from
ZeroHookConfig ==
    [initialized |-> FALSE,
     authority |-> DefaultPubkey,
     fee_collector |-> DefaultPubkey,
     is_paused |-> FALSE,
     total_transfers |-> ZERO,
     total_volume |-> ZERO,
     total_fees_collected |-> ZERO]

ZeroUserState ==
    [initialized |-> FALSE,
     owner |-> DefaultPubkey,
     transfer_count |-> ZERO,
     total_volume |-> ZERO,
     first_transfer_timestamp |-> 0,
     last_transfer_timestamp |-> 0,
     is_blacklisted |-> FALSE]

\* the address of the UserState of a key: seeds "user-state", key, mint.
\* The mutant leaves the key out of the seeds.
user_state_pda_shared(key) == "k1"

user_state_pda(key) == key

\* `init`: the account must not exist yet.  The mutant is init_if_needed.
init_allowed_always(account) == TRUE

init_allowed(account) == ~account.initialized

\* `init_if_needed`: the account as the handler sees it
init_if_needed(account) ==
    IF account.initialized THEN account ELSE [account EXCEPT !.initialized = TRUE]

\* `has_one = authority`.  The mutant leaves the constraint out.
has_one_authority_unchecked(config, authority) == TRUE

has_one_authority(config, authority) == config.authority = authority

---------------------------------------------------------------------------
(* Handlers: the instruction bodies as functions of the accounts *)

\* require!(!config.is_paused, ..).  The mutant leaves the check out.
not_paused_unchecked(config) == TRUE

not_paused(config) == ~config.is_paused

\* if user_state.is_blacklisted.  The mutant leaves the check out.
blacklisted_unchecked(user) == FALSE

blacklisted(user) == user.is_blacklisted

NoFee ==
    [fee_bps |-> 0, fee_amount |-> ZERO, loyalty_tier |-> "None",
     discount_bps |-> 0, discount |-> ZERO, final_fee |-> ZERO]

Rejected(code, config, user) ==
    [result |-> code, config |-> config, user |-> user, fee |-> NoFee]

\* "Update user statistics".  The first mutant leaves the timestamp of the
\* last transfer as it was; the second adds the amount net of the fee.
update_user_statistics_unstamped(user, amount, final_fee, now) ==
    [user EXCEPT
        !.transfer_count = saturating_add(user.transfer_count, ONE),
        !.total_volume = saturating_add(user.total_volume, amount)]

update_user_statistics_net(user, amount, final_fee, now) ==
    [user EXCEPT
        !.transfer_count = saturating_add(user.transfer_count, ONE),
        !.total_volume = saturating_add(user.total_volume,
                                        saturating_sub(amount, final_fee)),
        !.last_transfer_timestamp = now]

update_user_statistics(user, amount, final_fee, now) ==
    [user EXCEPT
        !.transfer_count = saturating_add(user.transfer_count, ONE),
        !.total_volume = saturating_add(user.total_volume, amount),
        !.last_transfer_timestamp = now]

\* "Update global statistics".  The first mutant adds the amount to the fees
\* and the fee to the volume; the second adds the amount net of the fee to
\* the volume.
update_global_statistics_swapped(config, amount, final_fee) ==
    [config EXCEPT
        !.total_transfers = saturating_add(config.total_transfers, ONE),
        !.total_volume = saturating_add(config.total_volume, final_fee),
        !.total_fees_collected =
            saturating_add(config.total_fees_collected, amount)]

update_global_statistics_net(config, amount, final_fee) ==
    [config EXCEPT
        !.total_transfers = saturating_add(config.total_transfers, ONE),
        !.total_volume = saturating_add(config.total_volume,
                                        saturating_sub(amount, final_fee)),
        !.total_fees_collected =
            saturating_add(config.total_fees_collected, final_fee)]

update_global_statistics(config, amount, final_fee) ==
    [config EXCEPT
        !.total_transfers = saturating_add(config.total_transfers, ONE),
        !.total_volume = saturating_add(config.total_volume, amount),
        !.total_fees_collected =
            saturating_add(config.total_fees_collected, final_fee)]

transfer_hook(config, user, owner, amount, now) ==
    IF ~not_paused(config) THEN Rejected("HookPaused", config, user)
    ELSE IF blacklisted(user) THEN Rejected("UserBlacklisted", config, user)
    ELSE
      LET first == IF user.transfer_count = ZERO
                   THEN [user EXCEPT !.owner = owner,
                                     !.first_transfer_timestamp = now]
                   ELSE user
          fee_bps == calculate_fee_tier(amount)
          fee_mul == checked_mul(as_u128(amount), fee_bps)
          fee_div == IF fee_mul = None THEN None ELSE checked_div(fee_mul, 10000)
          loyalty_tier == get_loyalty_tier(first.transfer_count)
          discount_bps == discount_bps_of(loyalty_tier)
          dis_mul == checked_mul(as_u128(amount), discount_bps)
          dis_div == IF dis_mul = None THEN None ELSE checked_div(dis_mul, 10000)
      IN  IF fee_div = None \/ dis_div = None
          THEN Rejected("Panic", config, user)
          ELSE
            LET fee_amount == as_u64(fee_div)
                discount == as_u64(dis_div)
                final_fee == saturating_sub(fee_amount, discount)
            IN  [result |-> "Ok",
                 user |-> update_user_statistics(first, amount, final_fee, now),
                 config |-> update_global_statistics(config, amount, final_fee),
                 fee |-> [fee_bps |-> fee_bps, fee_amount |-> fee_amount,
                          loyalty_tier |-> loyalty_tier,
                          discount_bps |-> discount_bps, discount |-> discount,
                          final_fee |-> final_fee]]

initialize(config, authority, fee_collector) ==
    [config EXCEPT !.authority = authority,
                   !.fee_collector = fee_collector,
                   !.is_paused = FALSE,
                   !.total_transfers = ZERO,
                   !.total_volume = ZERO,
                   !.total_fees_collected = ZERO]

\* the mutant flips the flag instead of assigning it
set_pause_toggle(config, paused) == [config EXCEPT !.is_paused = ~@]

set_pause(config, paused) == [config EXCEPT !.is_paused = paused]

set_blacklist(user, flag) == [user EXCEPT !.is_blacklisted = flag]

update_fee_collector(config, new_collector) ==
    [config EXCEPT !.fee_collector = new_collector]

---------------------------------------------------------------------------
(* The state machine *)

\* what the last instruction was and how it ended: its return value and the
\* figures it logs (msg!)
Call(op, amount, result, fee) ==
    [op |-> op, amount |-> amount, result |-> result, fee |-> fee]

NoCall == Call("none", ZERO, "Ok", NoFee)

\* history of the behaviour, per owner: the count and volume it started from,
\* the number n of its accepted transfers and their exact sum (128 bits wide)
NoHistory ==
    [accepted |-> 0,
     per |-> [k \in Keys |->
                [count0 |-> ZERO, volume0 |-> ZERO, n |-> 0, sum |-> as_u128(ZERO)]]]

Accept(h, owner, amount) ==
    [accepted |-> h.accepted + 1,
     per |-> [h.per EXCEPT
                ![owner].n = @ + 1,
                ![owner].sum = SubSeq(AddCarry(@, as_u128(amount), 1, 0), 1, U128Limbs)]]

Init ==
    /\ hook_config = ZeroHookConfig
    /\ user_state = [k \in Keys |-> ZeroUserState]
    /\ clock = 0
    /\ last = NoCall
    /\ hist = NoHistory

Initialize(authority, fee_collector) ==
    /\ IF init_allowed(hook_config)
       THEN /\ hook_config' = initialize([hook_config EXCEPT !.initialized = TRUE],
                                         authority, fee_collector)
            /\ last' = Call("initialize", ZERO, "Ok", NoFee)
       ELSE /\ hook_config' = hook_config
            /\ last' = Call("initialize", ZERO, "AccountAlreadyInUse", NoFee)
    /\ UNCHANGED <<user_state, clock, hist>>

InitializeExtraAccountMetaList(payer) ==
    /\ last' = Call("initialize_extra_account_meta_list", ZERO, "Ok", NoFee)
    /\ UNCHANGED <<hook_config, user_state, clock, hist>>

TransferHook(owner, amount) ==
    /\ hist.accepted < MaxTransfers
    /\ IF ~hook_config.initialized
       THEN /\ last' = Call("transfer_hook", amount, "AccountNotInitialized", NoFee)
            /\ UNCHANGED <<hook_config, user_state, hist>>
       ELSE LET pda == user_state_pda(owner)
                r == transfer_hook(hook_config, init_if_needed(user_state[pda]),
                                   owner, amount, clock)
            IN  /\ last' = Call("transfer_hook", amount, r.result, r.fee)
                /\ IF r.result = "Ok"
                   THEN /\ hook_config' = r.config
                        /\ user_state' = [user_state EXCEPT ![pda] = r.user]
                        /\ hist' = Accept(hist, owner, amount)
                   ELSE UNCHANGED <<hook_config, user_state, hist>>
    /\ UNCHANGED clock

SetPause(authority, paused) ==
    /\ IF ~hook_config.initialized
       THEN /\ last' = Call("set_pause", ZERO, "AccountNotInitialized", NoFee)
            /\ hook_config' = hook_config
       ELSE IF ~has_one_authority(hook_config, authority)
       THEN /\ last' = Call("set_pause", ZERO, "ConstraintHasOne", NoFee)
            /\ hook_config' = hook_config
       ELSE /\ last' = Call("set_pause", ZERO, "Ok", NoFee)
            /\ hook_config' = set_pause(hook_config, paused)
    /\ UNCHANGED <<user_state, clock, hist>>

SetBlacklist(authority, user, flag) ==
    /\ LET pda == user_state_pda(user)
       IN  IF ~hook_config.initialized \/ ~user_state[pda].initialized
           THEN /\ last' = Call("set_blacklist", ZERO, "AccountNotInitialized", NoFee)
                /\ user_state' = user_state
           ELSE IF ~has_one_authority(hook_config, authority)
           THEN /\ last' = Call("set_blacklist", ZERO, "ConstraintHasOne", NoFee)
                /\ user_state' = user_state
           ELSE /\ last' = Call("set_blacklist", ZERO, "Ok", NoFee)
                /\ user_state' = [user_state EXCEPT
                                    ![pda] = set_blacklist(user_state[pda], flag)]
    /\ UNCHANGED <<hook_config, clock, hist>>

UpdateFeeCollector(authority, new_collector) ==
    /\ IF ~hook_config.initialized
       THEN /\ last' = Call("update_fee_collector", ZERO, "AccountNotInitialized", NoFee)
            /\ hook_config' = hook_config
       ELSE IF ~has_one_authority(hook_config, authority)
       THEN /\ last' = Call("update_fee_collector", ZERO, "ConstraintHasOne", NoFee)
            /\ hook_config' = hook_config
       ELSE /\ last' = Call("update_fee_collector", ZERO, "Ok", NoFee)
            /\ hook_config' = update_fee_collector(hook_config, new_collector)
    /\ UNCHANGED <<user_state, clock, hist>>

\* the cluster clock advances between instructions
Tick ==
    /\ clock < MaxClock
    /\ clock' = clock + 1
    /\ UNCHANGED <<hook_config, user_state, last, hist>>

Next ==
    \/ \E a \in Keys, f \in Keys : Initialize(a, f)
    \/ \E p \in Keys : InitializeExtraAccountMetaList(p)
    \/ \E o \in Keys, amount \in Amounts : TransferHook(o, amount)
    \/ \E a \in Keys, paused \in BOOLEAN : SetPause(a, paused)
    \/ \E a \in Keys, u \in Keys, flag \in BOOLEAN : SetBlacklist(a, u, flag)
    \/ \E a \in Keys, c \in Keys : UpdateFeeCollector(a, c)
    \/ Tick

Spec == Init /\ [][Next]_vars

---------------------------------------------------------------------------
(* Behaviours that start from a sender with a history.  The initial state  *)
(* is the one the program is in after initialize by SeedAuthority and n    *)
(* accepted transfers of SeedAmount by SeedOwner, for n one short of a     *)
(* loyalty threshold; it is computed by running the handler n times.       *)

SeedAuthority == "k1"

SeedOwner == "k2"

SeedAmount == U64(50000000)

SeedCounts == {LOYALTY_BRONZE - 1, LOYALTY_SILVER - 1, LOYALTY_GOLD - 1}

RECURSIVE Replay(_, _, _)
Replay(accounts, owner, n) ==
    IF n = 0 THEN accounts
    ELSE IF n = 1
    THEN LET r == transfer_hook(accounts.config, init_if_needed(accounts.user),
                                owner, SeedAmount, 0)
         IN  IF r.result = "Ok" THEN r ELSE accounts
    ELSE LET half == Replay(accounts, owner, n \div 2)
         IN  IF half.result = "Ok" THEN Replay(half, owner, n - n \div 2)
             ELSE half

InitLoyal ==
    \E n \in SeedCounts :
       LET fresh == [result |-> "Ok",
                     config |-> initialize([ZeroHookConfig EXCEPT !.initialized = TRUE],
                                           SeedAuthority, SeedAuthority),
                     user |-> ZeroUserState,
                     fee |-> NoFee]
           seed == Replay(fresh, SeedOwner, n)
       IN  /\ hook_config = seed.config
           /\ user_state = [k \in Keys |->
                              IF k = user_state_pda(SeedOwner) THEN seed.user
                              ELSE ZeroUserState]
           /\ clock = 0
           /\ last = Call("transfer_hook", SeedAmount, "Ok", seed.fee)
           /\ hist = [NoHistory EXCEPT
                        !.per[SeedOwner].count0 = seed.user.transfer_count,
                        !.per[SeedOwner].volume0 = seed.user.total_volume]

SpecLoyal == InitLoyal /\ [][Next]_vars

---------------------------------------------------------------------------
(* Behaviours that exercise the fee tier table: transfers of the amounts   *)
(* at, just below and just above each threshold, and of the two ends of    *)
(* the u64 range.                                                          *)

TierAmounts ==
    {ZERO, ONE, U64_MAX,
     saturating_sub(TIER_1_THRESHOLD, ONE), TIER_1_THRESHOLD,
     saturating_add(TIER_1_THRESHOLD, ONE),
     saturating_sub(TIER_2_THRESHOLD, ONE), TIER_2_THRESHOLD,
     saturating_add(TIER_2_THRESHOLD, ONE),
     saturating_sub(TIER_3_THRESHOLD, ONE), TIER_3_THRESHOLD,
     saturating_add(TIER_3_THRESHOLD, ONE)}

NextTier ==
    \/ \E a \in Keys : Initialize(a, a)
    \/ \E o \in Keys, amount \in TierAmounts : TransferHook(o, amount)

SpecTier == Init /\ [][NextTier]_vars

---------------------------------------------------------------------------
(* Properties *)

\* a well-formed u64: four limbs, each in 0 .. 2^16 - 1
IsU64(x) == Len(x) = U64Limbs /\ \A i \in 1..U64Limbs : x[i] \in 0..(Limb - 1)

\* a + b does not fit 64 bits
Exceeds(a, b) == AddCarry(a, b, 1, 0)[U64Limbs + 1] # 0

\* a 128-bit value capped at the 64-bit maximum
Cap(w) == IF Lt(as_u128(U64_MAX), w) THEN U64_MAX ELSE as_u64(w)

\* the exact sum of two 128-bit values (no value of the model reaches 2^128)
Sum128(a, b) == SubSeq(AddCarry(a, b, 1, 0), 1, U128Limbs)

\* a counter that went from `old` to `new` did not decrease
NotLower(old, new) == new = old \/ Lt(old, new)

AccountsUnchanged == hook_config' = hook_config /\ user_state' = user_state

(* C1: while is_paused is true, a transfer_hook call by any sender with any
   amount is rejected with HookPaused, and the HookConfig and every UserState
   (the sender's included: it is not created) are the same after the call. *)
C1_PausedRejectsUnchanged ==
    [][\A o \in Keys, amount \in Amounts :
          (hook_config.is_paused /\ TransferHook(o, amount))
             => (last'.result = "HookPaused" /\ AccountsUnchanged)]_vars

\* a paused config has rejected a transfer and no sender has a record
C1_Witness ==
    /\ hook_config.is_paused
    /\ last.op = "transfer_hook"
    /\ last.result = "HookPaused"
    /\ \A k \in Keys : ~user_state[k].initialized

(* C2: a transfer_hook call by a sender whose is_blacklisted flag is true is
   never accepted, paused or not; when the config is not paused the rejection
   is UserBlacklisted; the HookConfig and every UserState are unchanged. *)
C2_BlacklistedRejectsUnchanged ==
    [][\A o \in Keys, amount \in Amounts :
          (user_state[o].is_blacklisted /\ TransferHook(o, amount))
             => /\ last'.result # "Ok"
                /\ ~hook_config.is_paused => last'.result = "UserBlacklisted"
                /\ AccountsUnchanged]_vars

\* a blacklisted sender was rejected by a config that is not paused
C2_Witness ==
    /\ ~hook_config.is_paused
    /\ last.op = "transfer_hook"
    /\ last.result = "UserBlacklisted"
    /\ \E k \in Keys : user_state[k].is_blacklisted

(* C3: the fee of an accepted transfer_hook call satisfies
   0 <= final_fee <= fee_amount <= amount. *)
C3_FeeBounds ==
    (last.op = "transfer_hook" /\ last.result = "Ok")
       => /\ IsU64(last.fee.final_fee)
          /\ Le(ZERO, last.fee.final_fee)
          /\ Le(last.fee.final_fee, last.fee.fee_amount)
          /\ Le(last.fee.fee_amount, last.amount)

\* an accepted transfer whose discount is larger than its base fee
C3_Witness ==
    /\ last.op = "transfer_hook"
    /\ last.result = "Ok"
    /\ Lt(last.fee.fee_amount, last.fee.discount)
    /\ last.fee.final_fee = ZERO

(* C4: none of UserState.transfer_count, UserState.total_volume,
   HookConfig.total_transfers, HookConfig.total_volume and
   HookConfig.total_fees_collected ever decreases, and an addition that would
   exceed the 64-bit maximum leaves the counter at the maximum. *)
C4_CountersMonotoneSaturating ==
    [][/\ \A k \in Keys :
             /\ NotLower(user_state[k].transfer_count, user_state'[k].transfer_count)
             /\ NotLower(user_state[k].total_volume, user_state'[k].total_volume)
       /\ NotLower(hook_config.total_transfers, hook_config'.total_transfers)
       /\ NotLower(hook_config.total_volume, hook_config'.total_volume)
       /\ NotLower(hook_config.total_fees_collected,
                   hook_config'.total_fees_collected)
       /\ \A o \in Keys, amount \in Amounts :
             (/\ last'.op = "transfer_hook"
              /\ last'.result = "Ok"
              /\ TransferHook(o, amount))
                => /\ Exceeds(user_state[o].transfer_count, ONE)
                        => user_state'[o].transfer_count = U64_MAX
                   /\ Exceeds(user_state[o].total_volume, amount)
                        => user_state'[o].total_volume = U64_MAX
                   /\ Exceeds(hook_config.total_transfers, ONE)
                        => hook_config'.total_transfers = U64_MAX
                   /\ Exceeds(hook_config.total_volume, amount)
                        => hook_config'.total_volume = U64_MAX
                   /\ Exceeds(hook_config.total_fees_collected, last'.fee.final_fee)
                        => hook_config'.total_fees_collected = U64_MAX]_vars

\* the amounts of one sender add up to more than the maximum, and its volume
\* and the global volume stand at the maximum
C4_Witness ==
    \E k \in Keys :
       /\ Lt(as_u128(U64_MAX), hist.per[k].sum)
       /\ user_state[k].total_volume = U64_MAX
       /\ hook_config.total_volume = U64_MAX

(* C5: after N accepted transfer_hook calls of a sender with amounts a1..aN,
   interleaved with any other operations, its transfer_count is its initial
   count plus N and its total_volume its initial volume plus a1+...+aN, each
   capped at the 64-bit maximum. *)
C5_CountAndVolume ==
    \A k \in Keys :
       /\ user_state[k].transfer_count =
             Cap(Sum128(as_u128(hist.per[k].count0), as_u128(U64(hist.per[k].n))))
       /\ user_state[k].total_volume =
             Cap(Sum128(as_u128(hist.per[k].volume0), hist.per[k].sum))

\* a sender that started with a history made two more transfers, and another
\* instruction followed
C5_Witness ==
    \E k \in Keys :
       /\ hist.per[k].count0 # ZERO
       /\ hist.per[k].n = 2
       /\ last.op = "set_blacklist"
       /\ last.result = "Ok"

(* C6: set_pause(true) by an identity different from HookConfig.authority
   fails and changes no state; by the authority it sets is_paused to true;
   is_paused then stays true until the authority calls set_pause(false), and
   every transfer_hook call made meanwhile is rejected with HookPaused. *)
C6_PauseByAuthorityOnly ==
    [][/\ \A a \in Keys :
             SetPause(a, TRUE)
                => IF a # hook_config.authority
                   THEN last'.result # "Ok" /\ AccountsUnchanged
                   ELSE last'.result = "Ok" /\ hook_config'.is_paused
       /\ (hook_config.is_paused /\ ~hook_config'.is_paused)
             => SetPause(hook_config.authority, FALSE)
       /\ \A o \in Keys, amount \in Amounts :
             (hook_config.is_paused /\ TransferHook(o, amount))
                => last'.result = "HookPaused"]_vars

\* transfers were accepted, then the hook was paused and rejected a transfer
C6_Witness ==
    /\ hist.accepted > 0
    /\ hook_config.is_paused
    /\ last.op = "transfer_hook"
    /\ last.result = "HookPaused"

(* C7: set_blacklist(true) by the authority succeeds for a sender that has
   never transferred (no UserState exists for it): afterwards its record
   exists with transfer_count 0 and is_blacklisted true. *)
C7_PreemptiveBlacklist ==
    [][\A u \in Keys :
          (/\ hook_config.initialized
           /\ ~user_state[u].initialized
           /\ SetBlacklist(hook_config.authority, u, TRUE))
             => /\ last'.result = "Ok"
                /\ user_state'[u].initialized
                /\ user_state'[u].transfer_count = ZERO
                /\ user_state'[u].is_blacklisted]_vars

(* C8: HookConfig.authority, once set by initialize, never changes: no
   transfer_hook, set_pause, set_blacklist, update_fee_collector or repeated
   initialize changes it. *)
C8_AuthorityImmutable ==
    [][hook_config.initialized
          => /\ hook_config'.initialized
             /\ hook_config'.authority = hook_config.authority]_vars

\* a second initialize was refused, after the fee collector was changed
C8_Witness ==
    /\ hook_config.initialized
    /\ hook_config.fee_collector # hook_config.authority
    /\ last.op = "initialize"
    /\ last.result = "AccountAlreadyInUse"

(* C9: once the owner of a UserState is set by an accepted transfer_hook
   call, no later operation changes it, and owner always equals the sender
   identity the record is keyed by. *)
C9_OwnerFixed ==
    [][\A k \in Keys :
          /\ user_state[k].owner # DefaultPubkey
                => user_state'[k].owner = user_state[k].owner
          /\ user_state'[k].initialized => user_state'[k].owner = k]_vars

\* both senders have a record, one of them blacklisted, and a transfer was
\* accepted after that
C9_Witness ==
    /\ \A k \in Keys : user_state[k].owner = k
    /\ \E k \in Keys : user_state[k].is_blacklisted
    /\ last.op = "transfer_hook"
    /\ last.result = "Ok"

\* an accepted transfer_hook call with amount 2_000_000_000 by a sender whose
\* transfer_count is 100
ScenarioB(o) ==
    /\ user_state[o].transfer_count = U64(LOYALTY_GOLD)
    /\ ~hook_config.is_paused
    /\ ~user_state[o].is_blacklisted
    /\ TransferHook(o, U64(2000000000))

(* C10 as stated: Scenario B: a transfer_hook call with amount 2_000_000_000
   by a sender whose transfer_count is 100 uses a base rate of 50 bps and a
   Gold discount of 50 bps: base fee 10,000,000, discount 10,000,000, final
   fee 0. *)
C10_ScenarioB_AsStated ==
    [][\A o \in Keys :
          ScenarioB(o)
             => /\ last'.result = "Ok"
                /\ last'.fee.fee_bps = 50
                /\ last'.fee.loyalty_tier = "Gold"
                /\ last'.fee.discount_bps = 50
                /\ last'.fee.fee_amount = U64(10000000)
                /\ last'.fee.discount = U64(10000000)
                /\ last'.fee.final_fee = ZERO]_vars

(* C10 amended: Scenario B: a transfer_hook call with amount 2_000_000_000 by
   a sender whose transfer_count is 100 uses a base rate of 25 bps (the
   amount lies between TIER_2_THRESHOLD and TIER_3_THRESHOLD) and a Gold
   discount of 50 bps: base fee 5,000,000, discount 10,000,000, final
   fee 0. *)
C10_ScenarioB_Amended ==
    [][\A o \in Keys :
          ScenarioB(o)
             => /\ last'.result = "Ok"
                /\ last'.fee.fee_bps = 25
                /\ last'.fee.loyalty_tier = "Gold"
                /\ last'.fee.discount_bps = 50
                /\ last'.fee.fee_amount = U64(5000000)
                /\ last'.fee.discount = U64(10000000)
                /\ last'.fee.final_fee = ZERO]_vars

\* the sender with 100 transfers made its 101st, of 2_000_000_000
C10_Witness ==
    /\ last.op = "transfer_hook"
    /\ last.result = "Ok"
    /\ last.amount = U64(2000000000)
    /\ last.fee.loyalty_tier = "Gold"
    /\ user_state[SeedOwner].transfer_count = U64(101)

\* a config as initialize leaves it
FreshConfig ==
    /\ hook_config.initialized
    /\ ~hook_config.is_paused
    /\ hook_config.total_transfers = ZERO
    /\ hook_config.total_volume = ZERO
    /\ hook_config.total_fees_collected = ZERO

(* C11: Scenario A: on a freshly initialized config, the first transfer_hook
   call of a fresh sender with amount 50_000_000 is accepted with base rate
   100 bps, discount 0 and final fee 500,000; afterwards the sender's
   transfer_count is 1, the config's total_transfers is 1 and its
   total_fees_collected is 500,000. *)
C11_ScenarioA ==
    [][\A o \in Keys :
          (/\ FreshConfig
           /\ ~user_state[o].initialized
           /\ last'.op = "transfer_hook"
           /\ last'.amount = U64(50000000)
           /\ TransferHook(o, U64(50000000)))
             => /\ last'.result = "Ok"
                /\ last'.fee.fee_bps = 100
                /\ last'.fee.discount_bps = 0
                /\ last'.fee.discount = ZERO
                /\ last'.fee.final_fee = U64(500000)
                /\ user_state'[o].initialized
                /\ user_state'[o].transfer_count = ONE
                /\ hook_config'.total_transfers = ONE
                /\ hook_config'.total_fees_collected = U64(500000)]_vars

\* the first transfer on the config was one of 50_000_000
C11_Witness ==
    /\ last.op = "transfer_hook"
    /\ last.result = "Ok"
    /\ last.amount = U64(50000000)
    /\ hook_config.total_transfers = ONE
    /\ hook_config.total_volume = U64(50000000)
    /\ \E k \in Keys : user_state[k].transfer_count = ONE

FeeRates == {TIER_1_FEE_BPS, TIER_2_FEE_BPS, TIER_3_FEE_BPS, TIER_4_FEE_BPS}

(* C12: the rate calculate_fee_tier returns for the amount of a transfer is
   one of 100, 50, 25, 10 bps; no larger amount gets a higher rate and no
   smaller amount a lower one; and an amount equal to TIER_1_THRESHOLD,
   TIER_2_THRESHOLD or TIER_3_THRESHOLD gets 50, 25 and 10 bps. *)
C12_FeeTierTable ==
    (last.op = "transfer_hook" /\ last.result = "Ok")
       => /\ FeeRates = {100, 50, 25, 10}
          /\ last.fee.fee_bps \in FeeRates
          /\ \A b \in TierAmounts :
                /\ Le(last.amount, b) => calculate_fee_tier(b) <= last.fee.fee_bps
                /\ Le(b, last.amount) => calculate_fee_tier(b) >= last.fee.fee_bps
          /\ last.amount = TIER_1_THRESHOLD => last.fee.fee_bps = 50
          /\ last.amount = TIER_2_THRESHOLD => last.fee.fee_bps = 25
          /\ last.amount = TIER_3_THRESHOLD => last.fee.fee_bps = 10
          /\ last.amount = saturating_sub(TIER_1_THRESHOLD, ONE)
                => last.fee.fee_bps = 100

\* a transfer of exactly TIER_3_THRESHOLD was charged the lowest rate
C12_Witness ==
    /\ last.op = "transfer_hook"
    /\ last.result = "Ok"
    /\ last.amount = TIER_3_THRESHOLD
    /\ last.fee.fee_bps = TIER_4_FEE_BPS

\* the step is an accepted transfer_hook call of owner o: only the record of
\* the sender changes in such a step, and it always does (its count grows)
AcceptedBy(o) ==
    /\ last'.op = "transfer_hook"
    /\ last'.result = "Ok"
    /\ user_state'[o] # user_state[o]

\* transfer counts around the loyalty thresholds
CountSamples ==
    {U64(n) : n \in {0, 1, 9, 10, 11, 49, 50, 51, 99, 100, 101}} \cup {U64_MAX}

(* C13: the discount rate of an accepted transfer is 0 bps for a sender count
   below 10 and 10, 25, 50 bps for a count of exactly 10, 50, 100; a sender
   with a larger count never gets a lower rate, nor one with a smaller count
   a higher rate. *)
C13_LoyaltyTable ==
    [][\A o \in Keys :
          AcceptedBy(o) =>
             LET count == user_state[o].transfer_count
                 rate == last'.fee.discount_bps
             IN  /\ rate \in {0, 10, 25, 50}
                 /\ Lt(count, U64(LOYALTY_BRONZE)) => rate = 0
                 /\ count = U64(LOYALTY_BRONZE) => rate = 10
                 /\ count = U64(LOYALTY_SILVER) => rate = 25
                 /\ count = U64(LOYALTY_GOLD) => rate = 50
                 /\ \A c \in CountSamples :
                       /\ Le(count, c)
                             => discount_bps_of(get_loyalty_tier(c)) >= rate
                       /\ Le(c, count)
                             => discount_bps_of(get_loyalty_tier(c)) <= rate]_vars

\* the sender made a transfer with a count of exactly LOYALTY_SILVER
C13_Witness ==
    /\ last.op = "transfer_hook"
    /\ last.result = "Ok"
    /\ last.fee.loyalty_tier = "Silver"
    /\ last.fee.discount_bps = 25
    /\ user_state[SeedOwner].transfer_count = U64(LOYALTY_SILVER + 1)

(* C15: the discount of an accepted transfer follows from the sender's count
   before the transfer: with a count of 9 (or less) the transfer gets no
   discount, although a count of 9 becomes 10; with a count of 10 the
   transfer gets the Bronze discount of 10 bps. *)
C15_DiscountFromPreCount ==
    [][\A o \in Keys :
          AcceptedBy(o) =>
             LET count == user_state[o].transfer_count
             IN  /\ Le(count, U64(9))
                       => /\ last'.fee.loyalty_tier = "None"
                          /\ last'.fee.discount_bps = 0
                          /\ last'.fee.discount = ZERO
                          /\ last'.fee.final_fee = last'.fee.fee_amount
                 /\ count = U64(9)
                       => user_state'[o].transfer_count = U64(10)
                 /\ count = U64(10)
                       => /\ last'.fee.loyalty_tier = "Bronze"
                          /\ last'.fee.discount_bps = 10
                          /\ Lt(ZERO, last'.fee.discount)
                          /\ user_state'[o].transfer_count = U64(11)]_vars

\* the sender's tenth transfer went undiscounted and its eleventh did not
C15_Witness ==
    /\ hist.per[SeedOwner].count0 = U64(9)
    /\ hist.per[SeedOwner].n = 2
    /\ user_state[SeedOwner].transfer_count = U64(11)
    /\ last.op = "transfer_hook"
    /\ last.result = "Ok"
    /\ last.fee.loyalty_tier = "Bronze"

\* the accounts after one more call of an admin instruction with the same
\* signer and arguments (the call fails, and changes nothing, when the
\* account is missing or the signer is not the authority)
SetPauseAgain(config, authority, paused) ==
    IF config.initialized /\ has_one_authority(config, authority)
    THEN set_pause(config, paused) ELSE config

UpdateFeeCollectorAgain(config, authority, new_collector) ==
    IF config.initialized /\ has_one_authority(config, authority)
    THEN update_fee_collector(config, new_collector) ELSE config

SetBlacklistAgain(config, users, authority, user, flag) ==
    IF /\ config.initialized
       /\ users[user_state_pda(user)].initialized
       /\ has_one_authority(config, authority)
    THEN [users EXCEPT ![user_state_pda(user)] = set_blacklist(@, flag)]
    ELSE users

CountersUnchanged ==
    /\ hook_config'.total_transfers = hook_config.total_transfers
    /\ hook_config'.total_volume = hook_config.total_volume
    /\ hook_config'.total_fees_collected = hook_config.total_fees_collected
    /\ \A k \in Keys :
          /\ user_state'[k].transfer_count = user_state[k].transfer_count
          /\ user_state'[k].total_volume = user_state[k].total_volume

(* C14: a call of set_pause, set_blacklist or update_fee_collector leaves
   every counter of the HookConfig and of every UserState unchanged, and the
   same call applied once more to the state it produced leaves that state as
   it is. *)
C14_AdminIdempotent ==
    [][/\ \A a \in Keys, paused \in BOOLEAN :
             (last'.op = "set_pause" /\ SetPause(a, paused))
                => /\ CountersUnchanged
                   /\ user_state' = user_state
                   /\ hook_config' = SetPauseAgain(hook_config, a, paused)
                   /\ SetPauseAgain(hook_config', a, paused) = hook_config'
       /\ \A a \in Keys, c \in Keys :
             (last'.op = "update_fee_collector" /\ UpdateFeeCollector(a, c))
                => /\ CountersUnchanged
                   /\ user_state' = user_state
                   /\ hook_config' = UpdateFeeCollectorAgain(hook_config, a, c)
                   /\ UpdateFeeCollectorAgain(hook_config', a, c) = hook_config'
       /\ \A a \in Keys, u \in Keys, flag \in BOOLEAN :
             (last'.op = "set_blacklist" /\ SetBlacklist(a, u, flag))
                => /\ CountersUnchanged
                   /\ hook_config' = hook_config
                   /\ user_state' =
                         SetBlacklistAgain(hook_config, user_state, a, u, flag)
                   /\ SetBlacklistAgain(hook_config', user_state', a, u, flag)
                         = user_state']_vars

\* the fee collector was replaced on a config with transfers and volume
C14_Witness ==
    /\ last.op = "update_fee_collector"
    /\ last.result = "Ok"
    /\ hook_config.fee_collector # hook_config.authority
    /\ hook_config.total_transfers # ZERO
    /\ hook_config.is_paused
    /\ \E k \in Keys : user_state[k].is_blacklisted

\* a + b capped at the 64-bit maximum, computed 128 bits wide
CappedSum(a, b) == Cap(Sum128(as_u128(a), as_u128(b)))

\* the accounts with every counter at the 64-bit maximum
SaturatedConfig ==
    [hook_config EXCEPT !.initialized = TRUE,
                        !.total_transfers = U64_MAX,
                        !.total_volume = U64_MAX,
                        !.total_fees_collected = U64_MAX]

SaturatedUser(o) ==
    [user_state[o] EXCEPT !.initialized = TRUE,
                          !.transfer_count = U64_MAX,
                          !.total_volume = U64_MAX]

(* C16: a transfer_hook call on a config that is not paused by a sender that
   is not blacklisted is accepted, whatever the amount and the counters, and
   all of its updates are applied: both counts grow by 1, both volumes by the
   amount, the fees by the final fee (each capped at the 64-bit maximum) and
   last_transfer_timestamp is the current time.  The handler also accepts
   the call when every counter is already at the 64-bit maximum. *)
C16_NoFailureAfterGates ==
    [][\A o \in Keys, amount \in Amounts :
          (/\ last'.op = "transfer_hook"
           /\ last'.amount = amount
           /\ hook_config.initialized
           /\ ~hook_config.is_paused
           /\ ~user_state[o].is_blacklisted
           /\ TransferHook(o, amount))
             => /\ last'.result = "Ok"
                /\ user_state'[o].initialized
                /\ user_state'[o].transfer_count =
                      CappedSum(user_state[o].transfer_count, ONE)
                /\ user_state'[o].total_volume =
                      CappedSum(user_state[o].total_volume, amount)
                /\ user_state'[o].last_transfer_timestamp = clock
                /\ hook_config'.total_transfers =
                      CappedSum(hook_config.total_transfers, ONE)
                /\ hook_config'.total_volume =
                      CappedSum(hook_config.total_volume, amount)
                /\ hook_config'.total_fees_collected =
                      CappedSum(hook_config.total_fees_collected,
                                last'.fee.final_fee)
                /\ LET r == transfer_hook(SaturatedConfig, SaturatedUser(o),
                                          o, amount, clock)
                   IN  /\ r.result = "Ok"
                       /\ r.user.transfer_count = U64_MAX
                       /\ r.user.total_volume = U64_MAX
                       /\ r.config.total_transfers = U64_MAX
                       /\ r.config.total_volume = U64_MAX
                       /\ r.config.total_fees_collected = U64_MAX]_vars

\* a transfer of u64::MAX was accepted from a sender whose volume was
\* already u64::MAX
C16_Witness ==
    \E k \in Keys :
       /\ last.op = "transfer_hook"
       /\ last.result = "Ok"
       /\ last.amount = U64_MAX
       /\ hist.per[k].n = 2
       /\ hist.per[k].sum = Sum128(as_u128(U64_MAX), as_u128(U64_MAX))
       /\ user_state[k].total_volume = U64_MAX
       /\ hook_config.total_volume = U64_MAX

\* the sum of the 128-bit values f[k], k in S
RECURSIVE SumOf(_, _)
SumOf(f, S) ==
    IF S = {} THEN as_u128(ZERO)
    ELSE LET k == CHOOSE x \in S : TRUE
         IN  Sum128(f[k], SumOf(f, S \ {k}))

\* no addition was capped so far: the amounts of all accepted transfers add
\* up to at most the 64-bit maximum (the counts and the fees are smaller)
NoCounterSaturated ==
    Le(SumOf([k \in Keys |-> hist.per[k].sum], Keys), as_u128(U64_MAX))

(* C17: as long as no counter has saturated, total_transfers of the
   HookConfig is the sum of transfer_count over all UserStates and its
   total_volume the sum of their total_volume (the amounts as transferred,
   fees included). *)
C17_GlobalIsSumOfUsers ==
    NoCounterSaturated
       => /\ as_u128(hook_config.total_transfers) =
                SumOf([k \in Keys |-> as_u128(user_state[k].transfer_count)], Keys)
          /\ as_u128(hook_config.total_volume) =
                SumOf([k \in Keys |-> as_u128(user_state[k].total_volume)], Keys)
          /\ as_u128(hook_config.total_volume) =
                SumOf([k \in Keys |-> hist.per[k].sum], Keys)

\* two senders have one accepted transfer each and nothing has saturated
C17_Witness ==
    /\ NoCounterSaturated
    /\ \A k \in Keys : user_state[k].transfer_count = ONE
    /\ hook_config.total_transfers = U64(2)
    /\ hook_config.total_volume = U64(2050000000)

(* C18: first_transfer_timestamp of a UserState changes only in the sender's
   first accepted transfer (the one made with transfer_count 0), which sets
   it to the current time, and is kept by every other step;
   last_transfer_timestamp is the current time after every accepted transfer;
   the clock does not go back, and first_transfer_timestamp <=
   last_transfer_timestamp whenever transfer_count >= 1. *)
C18_Timestamps ==
    [][/\ clock' >= clock
       /\ \A k \in Keys :
             /\ user_state'[k].first_transfer_timestamp
                   # user_state[k].first_transfer_timestamp
                   => AcceptedBy(k) /\ user_state[k].transfer_count = ZERO
             /\ AcceptedBy(k)
                   => /\ user_state'[k].last_transfer_timestamp = clock
                      /\ user_state'[k].first_transfer_timestamp =
                            IF user_state[k].transfer_count = ZERO THEN clock
                            ELSE user_state[k].first_transfer_timestamp
             /\ Le(ONE, user_state'[k].transfer_count)
                   => user_state'[k].first_transfer_timestamp
                         <= user_state'[k].last_transfer_timestamp]_vars

\* a sender made its first transfer at time 0 and its second at time 1
C18_Witness ==
    \E k \in Keys :
       /\ user_state[k].transfer_count = U64(2)
       /\ user_state[k].first_transfer_timestamp = 0
       /\ user_state[k].last_transfer_timestamp = 1
       /\ clock = 1

\* the fields of the HookConfig that transfer_hook does not write
GateAndRolesUnchanged ==
    /\ hook_config'.authority = hook_config.authority
    /\ hook_config'.fee_collector = hook_config.fee_collector
    /\ hook_config'.is_paused = hook_config.is_paused
    /\ \A k \in Keys :
          user_state'[k].is_blacklisted = user_state[k].is_blacklisted

(* C19: a transfer_hook call, accepted or rejected, leaves authority,
   fee_collector and is_paused of the HookConfig and is_blacklisted of every
   UserState as they were, and changes no UserState but the sender's;
   is_paused changes only in a set_pause call signed by the authority, and
   is_blacklisted of a sender only in a set_blacklist call for that sender
   signed by the authority. *)
C19_TransferFrame ==
    [][/\ last'.op = "transfer_hook" => GateAndRolesUnchanged
       /\ \A o \in Keys, amount \in Amounts :
             (/\ last'.op = "transfer_hook"
              /\ last'.amount = amount
              /\ TransferHook(o, amount))
                => /\ GateAndRolesUnchanged
                   /\ \A k \in Keys \ {o} : user_state'[k] = user_state[k]
                   /\ last'.result = "Ok" <=> AcceptedBy(o)
       /\ hook_config'.is_paused # hook_config.is_paused
             => /\ last'.op = "set_pause"
                /\ last'.result = "Ok"
                /\ SetPause(hook_config.authority, hook_config'.is_paused)
       /\ \A k \in Keys :
             user_state'[k].is_blacklisted # user_state[k].is_blacklisted
                => /\ last'.op = "set_blacklist"
                   /\ last'.result = "Ok"
                   /\ SetBlacklist(hook_config.authority, k,
                                   user_state'[k].is_blacklisted)]_vars

\* a transfer was accepted while another sender stayed blacklisted and the
\* fee collector stayed the one the authority had set
C19_Witness ==
    /\ last.op = "transfer_hook"
    /\ last.result = "Ok"
    /\ hook_config.fee_collector # hook_config.authority
    /\ \E k \in Keys :
          /\ user_state[k].is_blacklisted
          /\ user_state[k].transfer_count = ONE
    /\ \E k \in Keys :
          /\ ~user_state[k].is_blacklisted
          /\ user_state[k].transfer_count = ONE

(* C20: in every state, also when counters stand at the 64-bit maximum,
   total_fees_collected <= total_volume in the HookConfig. *)
C20_FeesAtMostVolume ==
    Le(hook_config.total_fees_collected, hook_config.total_volume)

\* the global volume is capped at the maximum and fees were collected
C20_Witness ==
    /\ ~NoCounterSaturated
    /\ hook_config.total_volume = U64_MAX
    /\ Lt(ZERO, hook_config.total_fees_collected)
    /\ Lt(hook_config.total_fees_collected, hook_config.total_volume)

=============================================================================
